---- MODULE Spec2Model ----
(***************************************************************************)
(* Model of server.py: the /api/compress and /api/stats handlers of the    *)
(* image compression service, the compression_stats collection they share, *)
(* and the asyncio event loop that runs the two coroutines.                *)
(*                                                                         *)
(* Strings whose content matters (file names, ISO-8601 timestamps, header  *)
(* values) are sequences of character codes, so that encoding, formatting, *)
(* parsing and byte-wise comparison are computed and not assumed.          *)
(* Floats are modelled as exact hundredths (an integer h stands for h/100).*)
(***************************************************************************)
EXTENDS Integers, Sequences, FiniteSets, TLC

\* ---------------------------------------------------------------- bounds
NumReq == 2
MaxStats == 2

Requests == 1..NumReq

\* ------------------------------------------------------- sequence helpers
Reverse(s) == [i \in 1..Len(s) |-> s[Len(s) + 1 - i]]

Take(s, n) == IF Len(s) <= n THEN s ELSE SubSeq(s, 1, n)

RECURSIVE LastIndexOf(_, _)
\* Index of the last occurrence of c in s, 0 when there is none.
LastIndexOf(s, c) ==
    IF s = <<>> THEN 0
    ELSE IF s[Len(s)] = c THEN Len(s)
    ELSE LastIndexOf(SubSeq(s, 1, Len(s) - 1), c)

\* ---------------------------------------------------- str() and parsing
Digit(n) == 48 + n

RECURSIVE NatStr(_)
\* str(n) for n >= 0: the decimal digits, no padding.
NatStr(n) == IF n < 10 THEN <<Digit(n)>> ELSE Append(NatStr(n \div 10), Digit(n % 10))

\* str(n) of a Python int.
IntStr(n) == IF n < 0 THEN <<45>> \o NatStr(-n) ELSE NatStr(n)

\* str(x) of a Python float with at most two decimals, x = h/100: the shortest
\* repr, which keeps at least one digit after the point.
FloatStr(h) ==
    LET a == IF h < 0 THEN -h ELSE h
        f == a % 100
        frac == IF f % 10 = 0 THEN <<Digit(f \div 10)>>
                ELSE <<Digit(f \div 10), Digit(f % 10)>>
    IN (IF h < 0 THEN <<45>> ELSE <<>>) \o NatStr(a \div 100) \o <<46>> \o frac

RECURSIVE Pad(_, _)
\* "%0<w>d" % n
Pad(n, w) == IF w = 0 THEN <<>> ELSE Append(Pad(n \div 10, w - 1), Digit(n % 10))

RECURSIVE DigitsVal(_)
\* int(s) for a string of decimal digits.
DigitsVal(s) ==
    IF s = <<>> THEN 0 ELSE 10 * DigitsVal(SubSeq(s, 1, Len(s) - 1)) + (s[Len(s)] - 48)

\* ------------------------------------------------------------ timestamps
\* datetime.now(timezone.utc): an aware UTC datetime.
DateTime(y, mo, d, h, mi, s, us) ==
    [y |-> y, mo |-> mo, d |-> d, h |-> h, mi |-> mi, s |-> s, us |-> us]

\* The readings the wall clock gives to the requests: one on a full second,
\* whose isoformat() has no fraction, and one five microseconds later.
Clock ==
    { DateTime(2024, 9, 30, 10, 0, 0, 0),
      DateTime(2024, 9, 30, 10, 0, 0, 5) }

\* The readings it gave to the conversions stored before.
EarlierReadings ==
    << DateTime(2024, 9, 30, 10, 0, 0, 5),
       DateTime(2024, 9, 30, 9, 59, 59, 999999),
       DateTime(2024, 9, 30, 10, 0, 0, 0) >>

\* datetime.isoformat() of an aware UTC datetime: the fraction is left out
\* when the microsecond is 0.
IsoFormat(t) ==
    Pad(t.y, 4) \o <<45>> \o Pad(t.mo, 2) \o <<45>> \o Pad(t.d, 2) \o <<84>>
    \o Pad(t.h, 2) \o <<58>> \o Pad(t.mi, 2) \o <<58>> \o Pad(t.s, 2)
    \o (IF t.us # 0 THEN <<46>> \o Pad(t.us, 6) ELSE <<>>)
    \o <<43, 48, 48, 58, 48, 48>>

\* datetime.fromisoformat() on the strings isoformat() writes.
FromIsoFormat(s) ==
    DateTime(DigitsVal(SubSeq(s, 1, 4)), DigitsVal(SubSeq(s, 6, 7)),
             DigitsVal(SubSeq(s, 9, 10)), DigitsVal(SubSeq(s, 12, 13)),
             DigitsVal(SubSeq(s, 15, 16)), DigitsVal(SubSeq(s, 18, 19)),
             IF Len(s) >= 20 /\ s[20] = 46 THEN DigitsVal(SubSeq(s, 21, 26)) ELSE 0)

RECURSIVE StrLessFrom(_, _, _)
\* a[i..] < b[i..] when a and b agree before position i.
StrLessFrom(a, b, i) ==
    IF i > Len(b) THEN FALSE
    ELSE IF i > Len(a) THEN TRUE
    ELSE IF a[i] # b[i] THEN a[i] < b[i]
    ELSE StrLessFrom(a, b, i + 1)

\* Binary (code point) comparison of two strings, as the store orders strings.
StrLess(a, b) == StrLessFrom(a, b, 1)

\* ------------------------------------------------------------- PIL images
\* A decoded image: its mode, its size <<width, height>>, one tuple of bands per
\* pixel, and for the palette modes the palette and the indices that the
\* image's transparency information marks transparent.
MkImage(mode, size, px, palette, transparent) ==
    [mode |-> mode, size |-> size, px |-> px, palette |-> palette,
     transparent |-> transparent]

White == <<255, 255, 255>>

\* Image.new('RGB', size, color)
NewImage(size, color) ==
    MkImage("RGB", size, [i \in 1..(size[1] * size[2]) |-> color], <<>>, {})

\* The colour bands of one pixel as an RGB triple, alpha (if any) dropped.
PixelRGB(image, p) ==
    CASE image.mode = "RGB"  -> p
      [] image.mode = "RGBA" -> <<p[1], p[2], p[3]>>
      [] image.mode = "L"    -> <<p[1], p[1], p[1]>>
      [] image.mode = "LA"   -> <<p[1], p[1], p[1]>>
      [] image.mode = "P"    -> image.palette[p[1] + 1]
      [] image.mode = "PA"   -> image.palette[p[1] + 1]

\* image.convert('RGB'): a change of mode; an alpha band is discarded.
ConvertRGB(image) ==
    MkImage("RGB", image.size,
            [i \in 1..Len(image.px) |-> PixelRGB(image, image.px[i])], <<>>, {})

\* image.convert('RGBA') of a palette image: the palette colour of each index,
\* alpha 0 for the indices marked transparent and 255 for the others.
ConvertRGBA(image) ==
    MkImage("RGBA", image.size,
            [i \in 1..Len(image.px) |->
                LET c == image.palette[image.px[i][1] + 1]
                IN <<c[1], c[2], c[3],
                     IF image.px[i][1] \in image.transparent THEN 0 ELSE 255>>],
            <<>>, {})

\* image.split()[-1]: the last band of every pixel.
LastBand(image) == [i \in 1..Len(image.px) |-> image.px[i][Len(image.px[i])]]

\* Division by 255 rounded to nearest, as the paste blend computes it.
Div255(a) == (((a + 128) \div 256) + (a + 128)) \div 256

Blend8(mask, dst, src) == Div255(dst * (255 - mask) + src * mask)

\* background.paste(image, mask=mask): each band of the canvas is blended with
\* the pasted pixel by the mask; mask = <<>> stands for mask=None (plain copy).
Paste(background, image, mask) ==
    [background EXCEPT !.px =
        [i \in 1..Len(background.px) |->
            LET src == PixelRGB(image, image.px[i])
                dst == background.px[i]
            IN IF mask = <<>> THEN src
               ELSE [b \in 1..3 |-> Blend8(mask[i], dst[b], src[b])]]]

\* Lines 74-81: the image handed to the encoder.
Normalize(image) ==
    IF image.mode \in {"RGBA", "LA", "P"}
    THEN LET background == NewImage(image.size, White)
             expanded == IF image.mode = "P" THEN ConvertRGBA(image) ELSE image
             mask == IF expanded.mode \in {"RGBA", "LA"} THEN LastBand(expanded)
                     ELSE <<>>
         IN Paste(background, expanded, mask)
    ELSE IF image.mode # "RGB" THEN ConvertRGB(image)
    ELSE image

\* ------------------------------------------------------ compression ratio
\* round(n / d) for d > 0, ties to even (Python's round).
RoundDiv(n, d) ==
    LET q == n \div d
        r == n % d
    IN IF 2 * r < d THEN q
       ELSE IF 2 * r > d THEN q + 1
       ELSE IF q % 2 = 0 THEN q ELSE q + 1

\* CompressionRatio with the percentage truncated instead of rounded.
CompressionRatioTruncated(original_size, compressed_size) ==
    IF original_size > 0
    THEN ((original_size - compressed_size) * 10000) \div original_size
    ELSE 0

\* Line 90, in hundredths of a percent:
\* round((1 - compressed_size / original_size) * 100, 2) if original_size > 0 else 0
CompressionRatio(original_size, compressed_size) ==
    IF original_size > 0
    THEN RoundDiv((original_size - compressed_size) * 10000, original_size)
    ELSE 0

\* -------------------------------------------------- compression_stats store
\* CompressionStats(...).model_dump() with the timestamp replaced by its
\* isoformat() string (lines 93-102). The id stands for the uuid4 string.
StatsDoc(id, filename, original_size, compressed_size, original_format, ratio, now) ==
    [id |-> id, original_filename |-> filename, original_size |-> original_size,
     compressed_size |-> compressed_size, original_format |-> original_format,
     compression_ratio |-> ratio, timestamp |-> IsoFormat(now)]

\* The order of an ascending sort: the smaller timestamp string first.
OlderFirst(a, b) == StrLess(a.timestamp, b.timestamp)

\* The sort key order of sort("timestamp", -1): a goes before b when its
\* timestamp string is the greater one.
NewerFirst(a, b) == StrLess(b.timestamp, a.timestamp)

\* cursor.sort("timestamp", -1): descending by the timestamp string; documents
\* with equal strings keep the order in which the store visits them.
SortDesc(docs) == SortSeq(docs, NewerFirst)

\* to_list(100)
StatsLimit == 100

\* The two orders in which the store may visit documents; the order among
\* documents with equal sort keys is not fixed by the store.
NaturalOrders == {"forward", "reverse"}

\* The query with the limit left out.
FindUnlimited(docs, natural) ==
    SortDesc(IF natural = "reverse" THEN Reverse(docs) ELSE docs)

\* Line 128: find({}, {"_id": 0}).sort("timestamp", -1).to_list(100)
Find(docs, natural) ==
    Take(SortDesc(IF natural = "reverse" THEN Reverse(docs) ELSE docs), StatsLimit)

\* Lines 130-134: every string timestamp is parsed back into a datetime.
StatsResponse(raw) ==
    [i \in 1..Len(raw) |-> [raw[i] EXCEPT !.timestamp = FromIsoFormat(@)]]

\* ------------------------------------------------------------------ uploads
NoImage == MkImage("", <<0, 0>>, <<>>, <<>>, {})

\* The palette of the palette images: index 0 black, index 1 red.
Palette == << <<0, 0, 0>>, <<255, 0, 0>> >>

\* File names as code points: "p.j" and a name whose first letter is Cyrillic.
AsciiName == <<112, 46, 106>>
CyrillicName == <<1092, 46, 106>>

\* What the decoder reports for a file whose format it cannot name (None).
NoFormat == "None"

\* An uploaded file: its name, its length in bytes, whether Image.open
\* identifies it, the format and image the decoder reports, and whether the
\* pixel data is cut short (loading it then raises).
MkUpload(filename, size, decodable, format, image, truncated) ==
    [filename |-> filename, size |-> size, decodable |-> decodable,
     format |-> format, image |-> image, truncated |-> truncated]

Uploads ==
    { MkUpload(AsciiName, 0, FALSE, NoFormat, NoImage, FALSE),
      MkUpload(AsciiName, 12, FALSE, NoFormat, NoImage, FALSE),
      MkUpload(AsciiName, 12, TRUE, "JPEG",
               MkImage("RGB", <<1, 1>>, << <<255, 0, 0>> >>, <<>>, {}), FALSE),
      MkUpload(AsciiName, 7, TRUE, "PNG",
               MkImage("RGBA", <<1, 1>>, << <<255, 0, 0, 0>> >>, <<>>, {}), TRUE),
      MkUpload(AsciiName, 7, TRUE, "JPEG",
               MkImage("RGB", <<1, 1>>, << <<0, 0, 0>> >>, <<>>, {}), TRUE),
      MkUpload(CyrillicName, 12, TRUE, "PNG",
               MkImage("LA", <<1, 1>>, << <<0, 128>> >>, <<>>, {}), FALSE),
      MkUpload(AsciiName, 7, TRUE, NoFormat,
               MkImage("L", <<1, 1>>, << <<255>> >>, <<>>, {}), FALSE) }

\* The lengths the encoder's output can have.
CompressedSizes == {2, 9}

\* ------------------------------------------------------------------- state
VARIABLES
    store,       \* db.compression_stats: the documents in insertion order
    pc,          \* pc[r]: where compress request r is in compress_image
    loop,        \* the request whose coroutine is running on the event loop, 0 if none
    req,         \* req[r]: the local variables of compress request r
    resp,        \* resp[r]: the response sent for compress request r
    failKind,    \* failKind[r]: the kind of the step that raised in request r
    attempts,    \* attempts[r]: the insert_one calls made by request r
    spc,         \* where the stats request in flight is in get_compression_stats
    nStats,      \* the stats requests started so far
    statsRaw,    \* the documents the store returned to the stats request
    statsSnap,   \* the store as the latest find saw it
    statsResult, \* what the latest finished stats request returned
    statsAfter,  \* the compress requests answered 200 before the latest stats request started
    prevResult,  \* what the stats request before the latest one returned
    okPrev,      \* okCur as it was when the latest stats request started
    okCur        \* a compress that gets answered 200 has stored its record since the
                 \* latest stats request started

vars == <<store, pc, loop, req, resp, failKind, attempts, spc, nStats, statsRaw,
          statsSnap, statsResult, statsAfter, prevResult, okPrev, okCur>>

statsVars == <<spc, nStats, statsRaw, statsSnap, statsResult, statsAfter, prevResult, okPrev>>

NoDoc == StatsDoc(0, <<>>, 0, 0, "", 0, DateTime(0, 0, 0, 0, 0, 0, 0))

NoHeaders ==
    [disposition |-> <<>>, original_size |-> <<>>, compressed_size |-> <<>>,
     compression_ratio |-> <<>>, original_format |-> ""]

NoResponse == [status |-> 0, detail |-> <<>>, headers |-> NoHeaders]

\* The handler's locals before its first statement.
NewRequest(u) ==
    [upload |-> u, original_size |-> 0, decoded |-> NoImage, image |-> NoImage,
     original_format |-> "", compressed_size |-> 0, compression_ratio |-> 0,
     stats_timestamp |-> DateTime(0, 0, 0, 0, 0, 0, 0), stats_doc |-> NoDoc,
     inserted |-> FALSE]

\* Lines 66-67
AfterRead(q) == [q EXCEPT !.original_size = q.upload.size]

\* Line 71: image.format or "UNKNOWN"
FormatLabel(format) == IF format = NoFormat THEN "UNKNOWN" ELSE format

\* Lines 70-71
AfterDecode(q) ==
    [q EXCEPT !.decoded = q.upload.image, !.image = q.upload.image,
              !.original_format = FormatLabel(q.upload.format)]

\* Lines 74-81
AfterNormalize(q) == [q EXCEPT !.image = Normalize(q.image)]

\* Lines 84-87
AfterTranscode(q, size) == [q EXCEPT !.compressed_size = size]

\* Lines 90-102
AfterBuild(q, id, now) ==
    LET ratio == CompressionRatio(q.original_size, q.compressed_size)
    IN [q EXCEPT !.compression_ratio = ratio,
                 !.stats_timestamp = now,
                 !.stats_doc = StatsDoc(id, q.upload.filename, q.original_size,
                                        q.compressed_size, q.original_format, ratio, now)]

\* Path(filename).stem: the name without its last suffix.
Stem(filename) ==
    LET dot == LastIndexOf(filename, 46)
    IN IF dot > 1 THEN SubSeq(filename, 1, dot - 1) ELSE filename

\* 'attachment; filename="' and '.webp"' as code points.
DispositionPrefix ==
    <<97, 116, 116, 97, 99, 104, 109, 101, 110, 116, 59, 32,
      102, 105, 108, 101, 110, 97, 109, 101, 61, 34>>
DispositionSuffix == <<46, 119, 101, 98, 112, 34>>

\* The headers with the original size reported as the compressed size.
ResponseHeadersSameSize(q) ==
    [disposition |-> DispositionPrefix \o Stem(q.upload.filename) \o DispositionSuffix,
     original_size |-> IntStr(q.original_size),
     compressed_size |-> IntStr(q.original_size),
     compression_ratio |-> FloatStr(q.compression_ratio),
     original_format |-> q.original_format]

\* Lines 112-118: the headers handed to StreamingResponse.
ResponseHeaders(q) ==
    [disposition |-> DispositionPrefix \o Stem(q.upload.filename) \o DispositionSuffix,
     original_size |-> IntStr(q.original_size),
     compressed_size |-> IntStr(q.compressed_size),
     compression_ratio |-> FloatStr(q.compression_ratio),
     original_format |-> q.original_format]

\* Response headers are encoded as latin-1 when the response object is built;
\* a code point above 255 makes that raise.
Latin1Encodable(str) == \A i \in 1..Len(str) : str[i] < 256

\* The error response with status 500 in place of 400.
HTTPExceptionServerError(reason) ==
    [status |-> 500, detail |-> <<"Error processing image: ", reason>>,
     headers |-> NoHeaders]

\* Line 123: HTTPException(status_code=400, detail=f"Error processing image: {str(e)}")
HTTPException(reason) ==
    [status |-> 400, detail |-> <<"Error processing image: ", reason>>,
     headers |-> NoHeaders]

Init ==
    /\ store = <<>>
    /\ pc = [r \in Requests |-> "idle"]
    /\ loop = 0
    /\ req = [r \in Requests |-> NewRequest(CHOOSE u \in Uploads : u.size = 0)]
    /\ resp = [r \in Requests |-> NoResponse]
    /\ failKind = [r \in Requests |-> ""]
    /\ attempts = [r \in Requests |-> 0]
    /\ spc = "idle"
    /\ nStats = 0
    /\ statsRaw = <<>>
    /\ statsSnap = <<>>
    /\ statsResult = <<>>
    /\ statsAfter = {}
    /\ prevResult = <<>>
    /\ okPrev = FALSE
    /\ okCur = FALSE

\* ---------------------------------------------------------- compress_image
\* Lines 121-123: the except clause; the coroutine ends and frees the loop.
Except(r, kind, reason) ==
    /\ resp' = [resp EXCEPT ![r] = HTTPException(reason)]
    /\ failKind' = [failKind EXCEPT ![r] = kind]
    /\ pc' = [pc EXCEPT ![r] = "done"]
    /\ loop' = 0

\* A compress request arrives with its upload; requests are numbered in the
\* order of their arrival.
Start(r) ==
    /\ pc[r] = "idle"
    /\ \A q \in Requests : q < r => pc[q] # "idle"
    /\ \E u \in Uploads : req' = [req EXCEPT ![r] = NewRequest(u)]
    /\ pc' = [pc EXCEPT ![r] = "read"]
    /\ UNCHANGED <<store, loop, resp, failKind, attempts, statsVars, okCur>>

\* Lines 66-67: await file.read() returns on the event loop, which the
\* coroutine then keeps until its next await.
Read(r) ==
    /\ pc[r] = "read"
    /\ loop = 0
    /\ req' = [req EXCEPT ![r] = AfterRead(req[r])]
    /\ pc' = [pc EXCEPT ![r] = "decode"]
    /\ loop' = r
    /\ UNCHANGED <<store, resp, failKind, attempts, statsVars, okCur>>

\* Lines 70-71: Image.open raises on bytes it cannot identify.
Decode(r) ==
    /\ pc[r] = "decode"
    /\ loop = r
    /\ IF req[r].upload.decodable
       THEN /\ req' = [req EXCEPT ![r] = AfterDecode(req[r])]
            /\ pc' = [pc EXCEPT ![r] = "normalize"]
            /\ UNCHANGED <<loop, resp, failKind>>
       ELSE /\ Except(r, "InvalidInput", "cannot identify image file")
            /\ UNCHANGED req
    /\ UNCHANGED <<store, attempts, statsVars, okCur>>

\* Lines 74-81: convert and split load the pixel data, which raises when the
\* data is cut short; an RGB image is not touched here.
NormalizeStep(r) ==
    /\ pc[r] = "normalize"
    /\ loop = r
    /\ IF req[r].image.mode # "RGB" /\ req[r].upload.truncated
       THEN /\ Except(r, "EncodingFailure", "image file is truncated")
            /\ UNCHANGED req
       ELSE /\ req' = [req EXCEPT ![r] = AfterNormalize(req[r])]
            /\ pc' = [pc EXCEPT ![r] = "transcode"]
            /\ UNCHANGED <<loop, resp, failKind>>
    /\ UNCHANGED <<store, attempts, statsVars, okCur>>

\* Lines 84-87: image.save loads the pixel data if nothing has yet.
Transcode(r) ==
    /\ pc[r] = "transcode"
    /\ loop = r
    /\ IF req[r].upload.truncated
       THEN /\ Except(r, "EncodingFailure", "image file is truncated")
            /\ UNCHANGED req
       ELSE /\ \E size \in CompressedSizes :
                 req' = [req EXCEPT ![r] = AfterTranscode(req[r], size)]
            /\ pc' = [pc EXCEPT ![r] = "build"]
            /\ UNCHANGED <<loop, resp, failKind>>
    /\ UNCHANGED <<store, attempts, statsVars, okCur>>

\* Lines 90-103 up to the await: the record gets a fresh id and the clock's
\* reading; awaiting insert_one hands the event loop back.
Build(r) ==
    /\ pc[r] = "build"
    /\ loop = r
    /\ \E now \in Clock : req' = [req EXCEPT ![r] = AfterBuild(req[r], r, now)]
    /\ pc' = [pc EXCEPT ![r] = "insert"]
    /\ loop' = 0
    /\ UNCHANGED <<store, resp, failKind, attempts, statsVars, okCur>>

\* Line 103: the driver performs the one insert_one call off the event loop;
\* the document is appended, or the call fails and nothing is stored.
Insert(r) ==
    /\ pc[r] = "insert"
    /\ attempts' = [attempts EXCEPT ![r] = @ + 1]
    /\ \/ /\ store' = Append(store, req[r].stats_doc)
          /\ req' = [req EXCEPT ![r].inserted = TRUE]
          /\ okCur' = (okCur \/ Latin1Encodable(ResponseHeaders(req[r]).disposition))
       \/ /\ UNCHANGED <<store, req, okCur>>
    /\ pc' = [pc EXCEPT ![r] = "respond"]
    /\ UNCHANGED <<loop, resp, failKind, statsVars>>

\* Lines 103-119 after the await: the coroutine resumes on the event loop with
\* the insert's outcome and assembles the response.
Respond(r) ==
    /\ pc[r] = "respond"
    /\ loop = 0
    /\ IF ~req[r].inserted
       THEN Except(r, "PersistenceFailure", "insert failed")
       ELSE IF ~Latin1Encodable(ResponseHeaders(req[r]).disposition)
       THEN Except(r, "ResponseFailure", "'latin-1' codec can't encode character")
       ELSE /\ resp' = [resp EXCEPT ![r] =
                          [status |-> 200, detail |-> <<>>,
                           headers |-> ResponseHeaders(req[r])]]
            /\ pc' = [pc EXCEPT ![r] = "done"]
            /\ UNCHANGED <<loop, failKind>>
    /\ UNCHANGED <<store, req, attempts, statsVars, okCur>>

Compress(r) ==
    \/ Start(r)
    \/ Read(r)
    \/ Decode(r)
    \/ NormalizeStep(r)
    \/ Transcode(r)
    \/ Build(r)
    \/ Insert(r)
    \/ Respond(r)

\* --------------------------------------------------- get_compression_stats
\* A stats request arrives and its coroutine runs up to the await of line 128.
StatsStart ==
    /\ spc = "idle"
    /\ nStats < MaxStats
    /\ loop = 0
    /\ spc' = "find"
    /\ nStats' = nStats + 1
    /\ statsAfter' = {r \in Requests : resp[r].status = 200}
    /\ prevResult' = statsResult
    /\ okPrev' = okCur
    /\ okCur' = FALSE
    /\ UNCHANGED <<store, pc, loop, req, resp, failKind, attempts, statsRaw,
                   statsSnap, statsResult>>

\* Line 128: the store answers the query off the event loop.
StatsFind ==
    /\ spc = "find"
    /\ \E natural \in NaturalOrders : statsRaw' = Find(store, natural)
    /\ statsSnap' = store
    /\ spc' = "return"
    /\ UNCHANGED <<store, pc, loop, req, resp, failKind, attempts, nStats,
                   statsResult, statsAfter, prevResult, okPrev, okCur>>

\* Lines 130-134: the coroutine resumes on the event loop and returns.
StatsReturn ==
    /\ spc = "return"
    /\ loop = 0
    /\ statsResult' = StatsResponse(statsRaw)
    /\ spc' = "idle"
    /\ UNCHANGED <<store, pc, loop, req, resp, failKind, attempts, nStats,
                   statsRaw, statsSnap, statsAfter, prevResult, okPrev, okCur>>

Stats == StatsStart \/ StatsFind \/ StatsReturn

Next == (\E r \in Requests : Compress(r)) \/ Stats

Spec == Init /\ [][Next]_vars

\* The compress requests alone, with no stats request in between.
NextCompress == \E r \in Requests : Compress(r)

SpecCompress == Init /\ [][NextCompress]_vars

\* ------------------------------------------- normalization over many images
MaxPixels == 2

Levels == {0, 100, 255}
Alphas == {0, 128, 255}
Colors == {<<0, 0, 0>>, <<255, 0, 0>>, <<255, 255, 255>>}

\* The modes a decoded file can have here; PA is a palette image with alpha.
Modes == {"RGB", "RGBA", "L", "LA", "P", "PA"}

PixelsOf(mode) ==
    CASE mode = "RGB"  -> Colors
      [] mode = "RGBA" -> {<<c[1], c[2], c[3], a>> : c \in Colors, a \in Alphas}
      [] mode = "L"    -> {<<l>> : l \in Levels}
      [] mode = "LA"   -> {<<l, a>> : l \in Levels, a \in Alphas}
      [] mode = "P"    -> {<<i>> : i \in {0, 1}}
      [] mode = "PA"   -> {<<i, a>> : i \in {0, 1}, a \in Alphas}

ImagesOf(mode) ==
    { MkImage(mode, <<w, 1>>, px, IF mode \in {"P", "PA"} THEN Palette ELSE <<>>, t) :
        w \in 1..MaxPixels, px \in UNION {[1..n -> PixelsOf(mode)] : n \in 1..MaxPixels},
        t \in IF mode = "P" THEN {{}, {0}} ELSE {{}} }

Images == {im \in UNION {ImagesOf(m) : m \in Modes} : Len(im.px) = im.size[1]}

\* Request 1 has decoded its upload and is about to normalize the image.
InitNormalize ==
    /\ Init!1 /\ Init!5 /\ Init!6 /\ Init!7 /\ Init!8 /\ Init!9 /\ Init!10
    /\ Init!11 /\ Init!12 /\ Init!13 /\ Init!14 /\ Init!15 /\ Init!16
    /\ pc = [r \in Requests |-> IF r = 1 THEN "normalize" ELSE "idle"]
    /\ loop = 1
    /\ \E im \in Images :
         req = [r \in Requests |->
                  IF r = 1
                  THEN AfterDecode(AfterRead(NewRequest(
                           MkUpload(AsciiName, 7, TRUE, "PNG", im, FALSE))))
                  ELSE NewRequest(CHOOSE u \in Uploads : u.size = 0)]

NextNormalize == NormalizeStep(1)

SpecNormalize == InitNormalize /\ [][NextNormalize]_vars

\* --------------------------------------------- a collection that is not empty
\* A collection of n documents left by earlier conversions; the timestamp of
\* document i is earlier reading (i * k) mod 3, so k = 0 gives equal timestamps.
Stored(n, k) ==
    [i \in 1..n |->
        StatsDoc(-i, AsciiName, 7, 2, "JPEG", CompressionRatio(7, 2),
                 EarlierReadings[((i * k) % Len(EarlierReadings)) + 1])]

StoredCollections ==
    {Stored(n, k) : n \in {0, StatsLimit - 1, StatsLimit}, k \in {0, 1}}

\* The collection holds earlier documents and request 1 awaits its insert_one.
InitStored ==
    /\ Init!3 /\ Init!5 /\ Init!6 /\ Init!7 /\ Init!8 /\ Init!9 /\ Init!10
    /\ Init!11 /\ Init!12 /\ Init!13 /\ Init!14 /\ Init!15 /\ Init!16
    /\ store \in StoredCollections
    /\ pc = [r \in Requests |-> IF r = 1 THEN "insert" ELSE "idle"]
    /\ \E u \in {v \in Uploads : v.decodable /\ ~v.truncated /\ v.format = "JPEG"},
          size \in CompressedSizes, now \in Clock :
         req = [r \in Requests |->
                  IF r = 1
                  THEN AfterBuild(AfterTranscode(AfterNormalize(AfterDecode(
                           AfterRead(NewRequest(u)))), size), 1, now)
                  ELSE NewRequest(CHOOSE v \in Uploads : v.size = 0)]

NextStored == Insert(1) \/ Respond(1) \/ Stats

SpecStored == InitStored /\ [][NextStored]_vars

\* =================================================================== claims
\* A request is in flight between its arrival and its response.
InFlight(r) == pc[r] \notin {"idle", "done"}

\* The positions of the documents that request r has put into the collection.
DocsOf(r) == {i \in 1..Len(store) : store[i].id = r}

Quiescent == \A r \in Requests : ~InFlight(r)

Succeeded == {r \in Requests : resp[r].status = 200}

DateTimeKey(t) == <<t.y, t.mo, t.d, t.h, t.mi, t.s, t.us>>

\* The instant a is before the instant b.
Earlier(a, b) ==
    \E k \in 1..7 :
        /\ DateTimeKey(a)[k] < DateTimeKey(b)[k]
        /\ \A j \in 1..(k - 1) : DateTimeKey(a)[j] = DateTimeKey(b)[j]

\* A stats request has returned and no later one has started.
StatsReturned == nStats >= 1 /\ spc = "idle"

\* C1: a compress request answered with 400 has written no stats record,
\* whichever step of the handler raised.
C1_NoRecordOnFailure ==
    \A r \in Requests : resp[r].status = 400 => DocsOf(r) = {}

\* C2: every failure of one of the three kinds (InvalidInput, EncodingFailure,
\* PersistenceFailure) ends in a 400 response with detail
\* 'Error processing image: <reason>', after at most one insert attempt, and
\* leaves the event loop free for later requests.
C2_UniformFailure ==
    \A r \in Requests :
        /\ attempts[r] <= 1
        /\ failKind[r] \in {"InvalidInput", "EncodingFailure", "PersistenceFailure"}
           => /\ resp[r].status = 400
              /\ Len(resp[r].detail) = 2
              /\ resp[r].detail[1] = "Error processing image: "
              /\ resp[r].detail[2] # ""
              /\ pc[r] = "done"
              /\ loop # r
              /\ (failKind[r] = "PersistenceFailure") = (attempts[r] = 1)

C2_Witness ==
    \E r, q \in Requests :
        /\ failKind[r] = "PersistenceFailure" /\ resp[r].status = 400
        /\ failKind[q] = "EncodingFailure" /\ resp[q].status = 400

\* C3: the collection is append-only and holds exactly one record per
\* successful conversion: once no request is in flight the number of records
\* equals the number of compress requests answered with success, each
\* successful request has inserted exactly one record, and no step changes
\* or removes a stored record.
C3_OneRecordPerSuccess ==
    /\ [](/\ \A r \in Succeeded : Cardinality(DocsOf(r)) = 1
          /\ Quiescent => Len(store) = Cardinality(Succeeded))
    /\ [][Len(store') >= Len(store) /\ SubSeq(store', 1, Len(store)) = store]_vars

\* C4: in every persisted record the sizes are non-negative integers and
\* compression_ratio is (1 - compressed_size/original_size) * 100 rounded to
\* two decimals when original_size > 0, and 0 when original_size = 0; for
\* original_size = 0 the ratio is 0 whatever the compressed size.
C4_RatioOfRecord ==
    /\ \A i \in 1..Len(store) :
         LET o == store[i].original_size
             c == store[i].compressed_size
             h == store[i].compression_ratio
             e == h * o - (o - c) * 10000
         IN /\ o \in Nat /\ c \in Nat
            /\ o > 0 => 2 * (IF e < 0 THEN -e ELSE e) <= o
            /\ o = 0 => h = 0
    /\ \A c \in CompressedSizes : CompressionRatio(0, c) = 0

C4_Witness ==
    \E i \in 1..Len(store) :
        /\ store[i].compressed_size > store[i].original_size
        /\ store[i].compression_ratio < 0
        /\ store[i].compression_ratio % 100 # 0

\* The ids of the records the latest stats request returned.
ReturnedIds == {statsResult[i].id : i \in 1..Len(statsResult)}

\* C5: the stats operation returns at most 100 records, as many as the limit
\* allows, newest creation timestamp first; no stored record left out is newer
\* than the oldest returned one; the order is the descending order of the stored
\* ISO-8601 strings, and each string reads back as the instant it was made of.
C5_NewestFirstAtMost100 ==
    /\ \A r \in Requests :
         pc[r] \in {"insert", "respond", "done"} /\ req[r].stats_doc.id = r
         => FromIsoFormat(req[r].stats_doc.timestamp) = req[r].stats_timestamp
    /\ StatsReturned =>
         LET n == Len(statsResult)
         IN /\ n <= 100
            /\ n = Len(statsRaw)
            /\ n = 100 \/ n = Len(statsSnap)
            /\ Cardinality(ReturnedIds) = n
            /\ \A i \in 1..(n - 1) :
                 /\ ~Earlier(statsResult[i].timestamp, statsResult[i + 1].timestamp)
                 /\ ~StrLess(statsRaw[i].timestamp, statsRaw[i + 1].timestamp)
            /\ \A i \in 1..n :
                 \E k \in 1..Len(statsSnap) :
                    /\ statsSnap[k].id = statsResult[i].id
                    /\ statsSnap[k].timestamp = statsRaw[i].timestamp
                    /\ FromIsoFormat(statsSnap[k].timestamp) = statsResult[i].timestamp
            /\ \A k \in 1..Len(statsSnap) :
                 statsSnap[k].id \notin ReturnedIds
                 => ~Earlier(statsResult[n].timestamp,
                             FromIsoFormat(statsSnap[k].timestamp))

C5_Witness ==
    /\ StatsReturned
    /\ Len(statsSnap) > 100
    /\ Len(statsResult) = 100
    /\ statsResult[1].timestamp # statsResult[100].timestamp
    /\ \E i \in 1..100 : statsResult[i].timestamp.us = 0

\* The stats request returned the record of request r with the sizes of its
\* conversion.
ReturnedRecordOf(r) ==
    \E i \in 1..Len(statsResult) :
        /\ statsResult[i].id = r
        /\ statsResult[i].original_size = req[r].original_size
        /\ statsResult[i].compressed_size = req[r].compressed_size

\* The documents of the collection, as the find saw it, that are not r's.
OthersSeen(r) == {k \in 1..Len(statsSnap) : statsSnap[k].id # r}

C7_StatsReadOnlyIdempotent ==
    /\ [][Stats => store' = store]_vars
    /\ [](nStats >= 2 /\ spc = "idle" /\ ~okPrev /\ ~okCur
          => statsResult = prevResult)

\* The mode has an alpha band.
HasAlpha(mode) == mode \in {"RGBA", "LA", "PA"}

\* The opacity of pixel p of the image: its alpha band, or for a palette image
\* without one, 0 for a transparent index and 255 for the others.
AlphaOf(image, p) ==
    IF HasAlpha(image.mode) THEN p[Len(p)]
    ELSE IF image.mode = "P" /\ p[1] \in image.transparent THEN 0
    ELSE 255

\* C8: normalization yields an RGB image of the same dimensions; an image whose
\* mode has an alpha band or is palette-indexed is composited onto white with
\* its alpha as the mask, so fully transparent pixels come out white and fully
\* opaque ones keep their colour; an alpha-free image of another mode is
\* converted without compositing; an RGB image passes through unchanged.
C8_NormalizedOntoWhite ==
    pc[1] = "transcode" =>
        LET in == req[1].decoded
            out == req[1].image
        IN /\ out.mode = "RGB"
           /\ out.size = in.size
           /\ Len(out.px) = Len(in.px)
           /\ \A i \in 1..Len(in.px) :
                /\ Len(out.px[i]) = 3
                /\ AlphaOf(in, in.px[i]) = 0 => out.px[i] = White
                /\ AlphaOf(in, in.px[i]) = 255 => out.px[i] = PixelRGB(in, in.px[i])
           /\ in.mode = "RGB" => out = in

\* C9: while a compress request is decoding, normalizing, transcoding or
\* writing its record, every other request in flight can take its next step.
C9_NoRequestBlocksAnother ==
    \A r \in Requests :
        pc[r] \in {"decode", "normalize", "transcode", "build", "insert"}
        => /\ \A q \in Requests \ {r} : InFlight(q) => ENABLED Compress(q)
           /\ spc # "idle" => ENABLED Stats

\* int(s) of a header value that is a non-negative decimal number.
HeaderInt(s) == DigitsVal(s)

\* The number a header value "[-]d+.d[d]" denotes, in hundredths.
HeaderHundredths(s) ==
    LET neg == s[1] = 45
        body == IF neg THEN Tail(s) ELSE s
        dot == CHOOSE i \in 1..Len(body) : body[i] = 46
        whole == DigitsVal(SubSeq(body, 1, dot - 1))
        frac == SubSeq(body, dot + 1, Len(body))
        cents == IF Len(frac) = 1 THEN 10 * DigitsVal(frac) ELSE DigitsVal(frac)
    IN (IF neg THEN -1 ELSE 1) * (100 * whole + cents)

\* C10: the metadata of a successful compress response agree with the record
\* the same request persisted, and X-Original-Format is 'UNKNOWN' exactly when
\* the decoder reports no format.
C10_HeadersMatchRecord ==
    \A r \in Succeeded :
        /\ DocsOf(r) # {}
        /\ \A i \in DocsOf(r) :
             /\ HeaderInt(resp[r].headers.original_size) = store[i].original_size
             /\ HeaderInt(resp[r].headers.compressed_size) = store[i].compressed_size
             /\ HeaderHundredths(resp[r].headers.compression_ratio)
                  = store[i].compression_ratio
             /\ resp[r].headers.original_format = store[i].original_format
        /\ (resp[r].headers.original_format = "UNKNOWN")
             = (req[r].upload.format = NoFormat)

C10_Witness ==
    \E r, q \in Succeeded :
        /\ resp[r].headers.original_format = "UNKNOWN"
        /\ resp[r].headers.compression_ratio[1] = 45
        /\ resp[q].headers.original_format = "JPEG"
        /\ Len(resp[q].headers.original_size) = 2

====
